---- MODULE Spec2Model ----
(***************************************************************************)
(* The item store of iridium (shell/src/storage.rs) with the envelope      *)
(* codec (libs/standardfile/src/lib.rs, crypto.rs) and the sync client     *)
(* (libs/standardfile/src/remote.rs) it drives.                            *)
(*                                                                         *)
(* Option<T> is a sequence of length 0 (None) or 1 (Some).  A Result is a  *)
(* record [tag, val] with tag "ok", "err" or "panic" (an unwinding panic   *)
(* of expect / an out-of-range index).                                     *)
(***************************************************************************)
EXTENDS Integers, Sequences, FiniteSets, TLC

\* Bounds of the model.
NumUuids == 2
MaxTime == 1
MaxBatch == 2

UUIDs == 1..NumUuids
Times == 0..MaxTime
Str == {"", "a"}
Keys == {"k1", "k2"}
ItemKeys == {"ik1"}
Tokens == {"t1"}

None == <<>>
Some(x) == <<x>>
IsSome(o) == Len(o) = 1
Unwrap(o) == o[1]

Ok(v) == [tag |-> "ok", val |-> v]
Err(e) == [tag |-> "err", val |-> e]
Panic(e) == [tag |-> "panic", val |-> e]

Put(f, k, v) == [x \in (DOMAIN f) \cup {k} |-> IF x = k THEN v ELSE f[x]]
Remove(f, k) == [x \in (DOMAIN f) \ {k} |-> f[x]]
Empty == [x \in {} |-> 0]
Range(s) == {s[i] : i \in DOMAIN s}
Min(S) == CHOOSE x \in S : \A y \in S : x <= y

(***************************************************************************)
(* Plain items and envelopes (lib.rs).                                     *)
(***************************************************************************)
Note(title, text, created_at, updated_at, uuid) ==
    [kind |-> "Note", title |-> title, text |-> text,
     created_at |-> created_at, updated_at |-> updated_at, uuid |-> uuid]

Tag(title, references, created_at, updated_at, uuid) ==
    [kind |-> "Tag", title |-> title, references |-> references,
     created_at |-> created_at, updated_at |-> updated_at, uuid |-> uuid]

Envelope(uuid, content, content_type, enc_item_key, created_at, updated_at, deleted) ==
    [uuid |-> uuid, content |-> content, content_type |-> content_type,
     enc_item_key |-> enc_item_key, created_at |-> created_at,
     updated_at |-> updated_at, deleted |-> deleted]

\* serde_json::to_string of NoteContent / TagContent: the JSON object.
\* A JSON string is Some(s), a JSON null is None.
NoteContent(title, text) == [title |-> title, text |-> text]
TagContent(title, references) == [title |-> Some(title), references |-> references]

(***************************************************************************)
(* One ciphertext string "003:auth:uuid:iv:ct" (crypto.rs).  n is the      *)
(* number of ':'-separated fields, key names the (ek, ak) pair the string  *)
(* was encrypted and authenticated with, plain is the plaintext.           *)
(***************************************************************************)
Ciphertext(n, version, uuid, key, plain) ==
    [n |-> n, version |-> version, uuid |-> uuid, key |-> key, plain |-> plain]

encrypt(s, key, uuid) == Ciphertext(5, "003", uuid, key, s)

decrypt(s, key, check_uuid) ==
    IF s.n < 5 THEN Panic("index out of bounds")
    ELSE IF s.version # "003" THEN Err("No support for encryption scheme < 003")
    ELSE IF s.uuid # check_uuid THEN Err("UUIDs do not match")
    ELSE IF s.key # key THEN Panic("foo")
    ELSE Ok(s.plain)

\* Crypto::encrypt: a random item key encrypts the content, the master key
\* encrypts the item key.
Crypto_encrypt(crypto, to_encrypt, uuid, item_key) ==
    [content |-> encrypt(to_encrypt, item_key, uuid),
     enc_item_key |-> encrypt(item_key, crypto, uuid)]

Crypto_decrypt(crypto, item) ==
    IF item.enc_item_key = None \/ item.content = None
    THEN Err("Cannot decrypt without key")
    ELSE LET item_key == decrypt(Unwrap(item.enc_item_key), crypto, item.uuid)
         IN IF item_key.tag # "ok" THEN item_key
            ELSE decrypt(Unwrap(item.content), item_key.val, item.uuid)

\* An encryption that leaves the title out of the content.
Note_encrypt_untitled(crypto, note, item_key) ==
    LET encrypted == Crypto_encrypt(crypto, NoteContent(None, note.text),
                                    note.uuid, item_key)
    IN Envelope(note.uuid, Some(encrypted.content), "Note", Some(encrypted.enc_item_key),
                note.created_at, note.updated_at, Some(FALSE))

Note_encrypt(crypto, note, item_key) ==
    LET encrypted == Crypto_encrypt(crypto, NoteContent(Some(note.title), note.text),
                                    note.uuid, item_key)
    IN Envelope(note.uuid, Some(encrypted.content), "Note", Some(encrypted.enc_item_key),
                note.created_at, note.updated_at, Some(FALSE))

Note_decrypt(crypto, item) ==
    LET decrypted == Crypto_decrypt(crypto, item)
    IN IF decrypted.tag # "ok" THEN decrypted
       ELSE IF "text" \notin DOMAIN decrypted.val THEN Err("missing field text")
       ELSE Ok(Note(IF IsSome(decrypted.val.title) THEN Unwrap(decrypted.val.title) ELSE "",
                    decrypted.val.text, item.created_at, item.updated_at, item.uuid))

Tag_encrypt(crypto, tag, item_key) ==
    LET encrypted == Crypto_encrypt(crypto, TagContent(tag.title, tag.references),
                                    tag.uuid, item_key)
    IN Envelope(tag.uuid, Some(encrypted.content), "Note", Some(encrypted.enc_item_key),
                tag.created_at, tag.updated_at, Some(FALSE))

Tag_decrypt(crypto, item) ==
    LET decrypted == Crypto_decrypt(crypto, item)
    IN IF decrypted.tag # "ok" THEN decrypted
       ELSE IF "references" \notin DOMAIN decrypted.val
            THEN Err("missing field references")
       ELSE IF ~IsSome(decrypted.val.title) THEN Err("invalid type for title")
       ELSE Ok(Tag(Unwrap(decrypted.val.title), decrypted.val.references,
                   item.created_at, item.updated_at, item.uuid))

Item_encrypt(crypto, item, item_key) ==
    IF item.kind = "Note" THEN Note_encrypt(crypto, item, item_key)
    ELSE Tag_encrypt(crypto, item, item_key)

\* Envelope::decrypt with the unknown content type folded into Other.
Envelope_decrypt_strict(crypto, item) ==
    IF item.content_type = "Note" THEN Note_decrypt(crypto, item)
    ELSE IF item.content_type = "Tag" THEN Tag_decrypt(crypto, item)
    ELSE Err("Unknown content type")

\* Envelope::decrypt: errors of Note/Tag::decrypt become Other ("err"),
\* an unknown content type is its own error ("unknown").
Envelope_decrypt(crypto, item) ==
    IF item.content_type = "Note" THEN Note_decrypt(crypto, item)
    ELSE IF item.content_type = "Tag" THEN Tag_decrypt(crypto, item)
    ELSE [tag |-> "unknown", val |-> item.content_type]

(***************************************************************************)
(* The key schedule (crypto.rs) and the client constructors (remote.rs).   *)
(* A string computed from other values is the tuple of a label and those   *)
(* values: the pw key of the schedule, its hex encoding, the passphrase.   *)
(***************************************************************************)
MaxCost == 2

Costs == 0..MaxCost
Nonces == {"n1", "n2"}
Passphrases == {<<"secret">>}
AuthTokens == {"a1", "a2"}
Errors == {"e1", "e2"}
CredentialsSet ==
    [identifier : {"user"}, cost : Costs, nonce : Nonces, password : Passphrases]

\* The credentials the items on the server were encrypted under.
Account == [identifier |-> "user", cost |-> 1, nonce |-> "n1", password |-> <<"secret">>]

\* A cost of zero passes for a cost.
get_nonzero_cost_lax(credentials) == Ok(credentials.cost)

get_nonzero_cost(credentials) ==
    IF credentials.cost = 0 THEN Err("Cost must be larger than zero")
    ELSE Ok(credentials.cost)

\* Crypto::new: pw is a function of identifier, cost, nonce and passphrase;
\* mk and ak are named as the store names them: "k1" is the pair derived
\* from the account's credentials, "k2" stands for a pair derived from others.
Crypto_new(credentials) ==
    IF get_nonzero_cost(credentials).tag # "ok" THEN get_nonzero_cost(credentials)
    ELSE Ok([pw |-> <<"pw", credentials.identifier, credentials.cost, credentials.nonce,
                      credentials.password>>,
             mk |-> IF credentials = Account THEN "k1" ELSE "k2"])

\* Crypto::password: HEXLOWER.encode(&self.pw)
Crypto_password(crypto) == <<"hex", crypto.pw>>

\* The passphrase itself put in the request.
raw_pw(credentials, crypto) == credentials.password

\* let encoded_pw = crypto.password();
encoded_pw(credentials, crypto) == Crypto_password(crypto)

\* The caller's cost and nonce kept.
rewrite_none(credentials, response) == credentials

\* credentials.cost = response.pw_cost; credentials.nonce = response.pw_nonce;
rewrite(credentials, response) ==
    [credentials EXCEPT !.cost = response.pw_cost, !.nonce = response.pw_nonce]

\* One request with the response it met.  Fields a request does not have
\* are None.
Request(method, path, email, password, pw_cost, pw_nonce, version, response) ==
    [method |-> method, path |-> path, email |-> email, password |-> password,
     pw_cost |-> pw_cost, pw_nonce |-> pw_nonce, version |-> version,
     response |-> response]

\* GET /auth/params: no answer that parses, or an AuthParamsResponse.
ParamsFailure == [ok |-> FALSE, pw_cost |-> 0, pw_nonce |-> ""]
ParamsResponses == {ParamsFailure} \cup [ok : {TRUE}, pw_cost : Costs, pw_nonce : Nonces]

\* POST /auth and /auth/sign_in: the request is not answered, or a status
\* with a JSON body that is a SignInResponse or an ErrorResponse.
SignInResponse(token) == [kind |-> "SignInResponse", token |-> token, errors |-> <<>>]
ErrorResponse(errors) == [kind |-> "ErrorResponse", token |-> "", errors |-> errors]
Bodies ==
    {SignInResponse(t) : t \in AuthTokens} \cup
    {ErrorResponse(e) : e \in {<<>>} \cup {<<x>> : x \in Errors}}
AuthResponses ==
    {[sent |-> FALSE, status |-> 0, body |-> ErrorResponse(<<>>)]} \cup
    [sent : {TRUE}, status : {200, 401}, body : Bodies]

get_token_from_signin_response(response) ==
    IF response.status = 200
    THEN IF response.body.kind = "SignInResponse" THEN Ok(response.body.token)
         ELSE Err("missing field token")
    ELSE IF response.body.kind # "ErrorResponse" THEN Err("missing field errors")
    ELSE IF response.body.errors = <<>> THEN Panic("index out of bounds")
    ELSE Err(response.body.errors[1])

\* What a constructor returns and the requests it sent on the way.
Made(result, requests) == [result |-> result, requests |-> requests]
Client(creds, token) == [credentials |-> creds, auth_token |-> token, sync_token |-> None]

new_register(creds, response) ==
    LET schedule == Crypto_new(creds)
        request == Request("POST", "/auth", creds.identifier,
                           Some(encoded_pw(creds, schedule.val)),
                           Some(creds.cost), Some(creds.nonce), Some("003"), response)
        token == get_token_from_signin_response(response)
    IN IF schedule.tag # "ok" THEN Made(schedule, <<>>)
       ELSE IF ~response.sent THEN Made(Err("error sending request"), <<request>>)
       ELSE IF token.tag # "ok" THEN Made(token, <<request>>)
       ELSE Made(Ok(Client(creds, token.val)), <<request>>)

new_sign_in(creds, params, response) ==
    LET get == Request("GET", "/auth/params", creds.identifier, None, None, None, None,
                       params)
        rewritten == rewrite(creds, params)
        schedule == Crypto_new(rewritten)
        post == Request("POST", "/auth/sign_in", rewritten.identifier,
                        Some(encoded_pw(rewritten, schedule.val)), None, None, None,
                        response)
        token == get_token_from_signin_response(response)
    IN IF ~params.ok THEN Made(Err("error decoding response body"), <<get>>)
       ELSE IF schedule.tag # "ok" THEN Made(schedule, <<get>>)
       ELSE IF ~response.sent THEN Made(Err("error sending request"), <<get, post>>)
       ELSE IF token.tag # "ok" THEN Made(token, <<get, post>>)
       ELSE Made(Ok(Client(rewritten, token.val)), <<get, post>>)

(***************************************************************************)
(* What the server may answer (remote.rs, SyncResponse).  The envelopes a  *)
(* server can hold: a note and a tag written by another device with the    *)
(* same credentials, an item of an unknown kind, a tombstone (no content), *)
(* and an envelope authenticated with another key.                         *)
(***************************************************************************)
RemoteNote == Note_encrypt("k1", Note("a", "", 0, 0, 1), "ik1")
RemoteTag == [Tag_encrypt("k1", Tag("a", <<1>>, 0, 0, 2), "ik1") EXCEPT !.content_type = "Tag"]
RemoteUnknown == [RemoteNote EXCEPT !.content_type = "Component"]
RemoteTombstone ==
    [RemoteNote EXCEPT !.content = None, !.enc_item_key = None, !.deleted = Some(TRUE)]
RemoteForeign == Note_encrypt("k2", Note("a", "", 0, 0, 1), "ik1")

ServerEnvelopes == {RemoteNote, RemoteTag, RemoteUnknown, RemoteTombstone, RemoteForeign}

SeqsUpTo(S, n) == UNION {[1..k -> S] : k \in 0..n}
Batches == SeqsUpTo(ServerEnvelopes, MaxBatch)
OptTokens == {None} \cup {Some(t) : t \in Tokens}

SyncFailure == [ok |-> FALSE, retrieved |-> <<>>, sync_token |-> None]
SyncResponses == [ok : {TRUE}, retrieved : Batches, sync_token : OptTokens]
\* Answers to a push whose retrieved items the caller never reads (flush,
\* flush_dirty, delete): one batch per length stands for all of that length.
PushResponses == [ok : {TRUE}, retrieved : {<<>>, <<RemoteNote>>}, sync_token : OptTokens]

VARIABLES
    items,       \* Storage.items: uuid -> Item
    dirty,       \* Storage.dirty
    current,     \* Storage.current: Option<Uuid>
    crypto,      \* Storage.crypto: the key schedule (named by its master key)
    client,      \* Storage.client.is_some()
    sync_token,  \* Client.sync_token: Option<String>
    disk,        \* the bucket directory: file name -> Envelope
    now,         \* the clock read by Utc::now()
    used,        \* uuids Uuid::new_v4() has drawn or the stores have seen
    last,        \* the last store operation: name, arguments, result
    net,         \* the sync exchanges the last operation made, in order
    live,        \* a Storage exists (application.rs: storage.is_some())
    server,      \* a sync server is configured (config.server().is_some())
    credentials, \* Storage.credentials: Option of the credentials it was opened with
    auth_token,  \* Client.auth_token: Option of the bearer token
    http,        \* the requests the last client constructor sent, with their responses
    call,        \* the last call that returned a value: arguments and result
    flush_timer_running, \* application.rs: the flag of the event loop
    timers,      \* the flush timeouts armed and not yet fired
    events,      \* the AppEvents sent and not yet handled, oldest first
    handler      \* the event being handled, "idle" between events

loop == <<flush_timer_running, timers, events, handler>>

\* What the store operations act on, apart from the record of the last one.
store == <<items, dirty, current, crypto, client, sync_token, disk, now, used, net, live,
           server, credentials, auth_token, http, call>>

vars == <<items, dirty, current, crypto, client, sync_token, disk, now, used, last, net,
          live, server, credentials, auth_token, http, call, loop>>

Op(op, uuid, str, batch, result) ==
    [op |-> op, uuid |-> uuid, str |-> str, batch |-> batch, result |-> result]

\* One call of Client::sync as the store saw it.  retrieved is the number of
\* envelopes in the response; reconciled says whether the caller handed them
\* to insert_encrypted_items; files are the file names present at send time.
Exchange(pushed, token, resp, reconciled, files) ==
    [items |-> pushed, sync_token |-> token, cursor_token |-> None,
     ok |-> resp.ok, retrieved |-> Len(resp.retrieved),
     response_token |-> resp.sync_token, reconciled |-> reconciled, files |-> files,
     bearer |-> auth_token]

\* A cursor kept when the response carries none.
Client_sync_sticky(token, resp) ==
    IF resp.ok /\ IsSome(resp.sync_token) THEN resp.sync_token ELSE token

\* A cursor forgotten when the call fails.
Client_sync_reset(token, resp) == IF resp.ok THEN resp.sync_token ELSE None

\* Client::sync: the cursor is replaced only when the response was parsed.
Client_sync(token, resp) == IF resp.ok THEN resp.sync_token ELSE token

\* A call of a function: its name, its arguments, what it returned.
Call(fn, input, key, uuid, output) ==
    [fn |-> fn, input |-> input, key |-> key, uuid |-> uuid, output |-> output]
NoCall == Call("none", None, None, None, None)

Start ==
    /\ items = Empty
    /\ dirty = {}
    /\ current = None
    /\ crypto = "k1"
    /\ client = FALSE
    /\ sync_token = None
    /\ disk = Empty
    /\ used = {}
    /\ last = Op("start", None, None, None, "ok")
    /\ net = <<>>
    /\ live = FALSE
    /\ credentials = None
    /\ auth_token = None
    /\ http = <<>>
    /\ call = NoCall
    /\ flush_timer_running = FALSE
    /\ timers = 0
    /\ events = <<>>
    /\ handler = "idle"

\* A first run without a server.
Init == Start /\ server = FALSE /\ now = 0

\* A run with a server configured, at a time when the clock has reached the
\* horizon of the model: the envelopes of the server are older than any edit.
InitSync == Start /\ server = TRUE /\ now = MaxTime

\* A panic unwinds the process: the store in memory is gone, the bucket stays.
Crash(op, uuid, str, batch, d) ==
    /\ disk' = d
    /\ items' = Empty
    /\ dirty' = {}
    /\ current' = None
    /\ client' = FALSE
    /\ sync_token' = None
    /\ last' = Op(op, uuid, str, batch, "panic")
    /\ net' = <<>>
    /\ live' = FALSE
    /\ credentials' = None
    /\ auth_token' = None
    /\ UNCHANGED <<crypto, now, server, http, call, loop>>

\* Uuid::new_v4(): a uuid seen nowhere before.  Fresh uuids are
\* interchangeable, so the least unused one stands for the draw.
new_v4 == IF UUIDs \ used = {} THEN {} ELSE {Min(UUIDs \ used)}

\* A create_note that marks the new note dirty.
create_note_dirty ==
    /\ live
    /\ \E t \in now..MaxTime, uuid \in new_v4 :
        /\ now' = t
        /\ used' = used \cup {uuid}
        /\ items' = Put(items, uuid, Note("", "", t, t, uuid))
        /\ dirty' = dirty \cup {uuid}
        /\ last' = Op("create_note", Some(uuid), None, None, "ok")
    /\ net' = <<>>
    /\ UNCHANGED <<current, crypto, client, sync_token, disk, live, server, credentials,
                   auth_token, http, call, loop>>

create_note ==
    /\ live
    /\ \E t \in now..MaxTime, uuid \in new_v4 :
        /\ now' = t
        /\ used' = used \cup {uuid}
        /\ items' = Put(items, uuid, Note("", "", t, t, uuid))
        /\ last' = Op("create_note", Some(uuid), None, None, "ok")
    /\ net' = <<>>
    /\ UNCHANGED <<dirty, current, crypto, client, sync_token, disk, live, server, credentials, auth_token, http, call, loop>>

\* A set_current_uuid that does not look the uuid up.
set_current_uuid_unchecked ==
    /\ live
    /\ \E uuid \in UUIDs :
        /\ current' = Some(uuid)
        /\ last' = Op("set_current_uuid", Some(uuid), None, None, "ok")
    /\ net' = <<>>
    /\ UNCHANGED <<items, dirty, crypto, client, sync_token, disk, now, used, live, server,
                   credentials, auth_token, http, call, loop>>

set_current_uuid ==
    /\ live
    /\ \E uuid \in UUIDs :
        IF uuid \notin DOMAIN items
        THEN /\ last' = Op("set_current_uuid", Some(uuid), None, None, "err")
             /\ UNCHANGED current
        ELSE /\ current' = Some(uuid)
             /\ last' = Op("set_current_uuid", Some(uuid), None, None, "ok")
    /\ net' = <<>>
    /\ UNCHANGED <<items, dirty, crypto, client, sync_token, disk, now, used, live, server, credentials, auth_token, http, call, loop>>

get_uuid == IF IsSome(current) THEN Ok(Unwrap(current)) ELSE Err("No current uuid set")

\* get_note and get_note_mut.
get_note ==
    IF get_uuid.tag # "ok" THEN get_uuid
    ELSE IF get_uuid.val \notin DOMAIN items THEN Err("uuid mapping not found")
    ELSE IF items[get_uuid.val].kind = "Tag" THEN Panic("Current uuid is a tag")
    ELSE Ok(items[get_uuid.val])

\* A setter that stamps the note and forgets the value.
set_field_stale(note, field, s, t) == [note EXCEPT !.updated_at = t]

\* A setter that stamps created_at as well.
set_field_restamp(note, field, s, t) ==
    [note EXCEPT !.updated_at = t, !.created_at = t, ![field] = s]

\* note.updated_at = Utc::now(); note.<field> = s.
set_field(note, field, s, t) == [note EXCEPT !.updated_at = t, ![field] = s]

\* The uuid marked dirty before get_note_mut has looked it up.
mark_dirty_unchecked(d, note, uuid) == IF uuid.tag = "ok" THEN d \cup {uuid.val} ELSE d

\* self.dirty.insert(self.get_uuid()?), reached once get_note_mut returned.
mark_dirty(d, note, uuid) == IF note.tag = "ok" THEN d \cup {uuid.val} ELSE d

SetField(op, field) ==
    /\ live
    /\ \E s \in Str, t \in now..MaxTime :
        CASE get_note.tag = "panic" ->
                /\ t = now
                /\ Crash(op, current, Some(s), None, disk)
                /\ UNCHANGED used
          [] get_note.tag = "err" ->
                /\ t = now
                /\ dirty' = mark_dirty(dirty, get_note, get_uuid)
                /\ last' = Op(op, current, Some(s), None, "err")
                /\ net' = <<>>
                /\ UNCHANGED <<items, current, crypto, client, sync_token,
                               disk, now, used, live, server, credentials, auth_token, http, call, loop>>
          [] OTHER ->
                /\ now' = t
                /\ items' = [items EXCEPT ![get_uuid.val] = set_field(@, field, s, t)]
                /\ dirty' = mark_dirty(dirty, get_note, get_uuid)
                /\ last' = Op(op, current, Some(s), None, "ok")
                /\ net' = <<>>
                /\ UNCHANGED <<current, crypto, client, sync_token, disk, used, live, server, credentials, auth_token, http, call, loop>>

set_text == SetField("set_text", "text")

set_title == SetField("set_title", "title")

\* get_text and get_title: what the call returns in the current state.
get_text == IF get_note.tag = "ok" THEN Ok(get_note.val.text) ELSE get_note

get_title == IF get_note.tag = "ok" THEN Ok(get_note.val.title) ELSE get_note

\* The orders in which a HashSet or a directory may be iterated.
Orders(S) == {s \in [1..Cardinality(S) -> S] : Range(s) = S}

\* flush_to_disk: the file named by the uuid holds the envelope's JSON.
\* Every file written under the same name.
flush_to_disk_one_name(d, uuid, item) == Put(d, Min(UUIDs), item)

flush_to_disk(d, uuid, item) == Put(d, uuid, item)

RECURSIVE WriteAll(_, _, _)
WriteAll(d, envelopes, k) ==
    IF k = 0 THEN d
    ELSE flush_to_disk(WriteAll(d, envelopes, k - 1), envelopes[k].uuid, envelopes[k])

\* The dirty set cleared on every path out of flush_dirty.
flushed_dirty_always(d, result) == {}

\* self.dirty.clear() is reached only when no step returned an error.
flushed_dirty(d, result) == IF result = "ok" THEN {} ELSE d

\* for uuid in &self.dirty
dirty_uuids(d) == d

\* flush_dirty.  order is the iteration order of the dirty set, stop the
\* position whose write fails (0: none), resp the server's answer.
flush_dirty ==
    /\ live
    /\ \E order \in Orders(dirty_uuids(dirty)), stop \in 0..Cardinality(dirty_uuids(dirty)),
          item_key \in ItemKeys,
          resp \in IF client THEN {SyncFailure} \cup PushResponses ELSE {SyncFailure} :
        LET n == Len(order)
            fails == {i \in 1..n : order[i] \notin DOMAIN items \/ i = stop}
            done == IF fails = {} THEN n ELSE Min(fails) - 1
            envelopes == [i \in 1..done |-> Item_encrypt(crypto, items[order[i]], item_key)]
        IN /\ disk' = WriteAll(disk, envelopes, done)
           /\ IF fails # {}
              THEN /\ resp = SyncFailure
                   /\ dirty' = flushed_dirty(dirty, "err")
                   /\ last' = Op("flush_dirty", None, None, None, "err")
                   /\ net' = <<>>
                   /\ UNCHANGED sync_token
              ELSE IF client
              THEN /\ net' = <<Exchange(envelopes, sync_token, resp, FALSE, DOMAIN disk')>>
                   /\ sync_token' = Client_sync(sync_token, resp)
                   /\ dirty' = flushed_dirty(dirty, IF resp.ok THEN "ok" ELSE "err")
                   /\ last' = Op("flush_dirty", None, None, None,
                                 IF resp.ok THEN "ok" ELSE "err")
              ELSE /\ resp = SyncFailure
                   /\ dirty' = flushed_dirty(dirty, "ok")
                   /\ last' = Op("flush_dirty", None, None, None, "ok")
                   /\ net' = <<>>
                   /\ UNCHANGED sync_token
    /\ UNCHANGED <<items, current, crypto, client, now, used, live, server, credentials, auth_token, http, call, loop>>

\* A delete that leaves the dirty set alone.
delete_dirty_keep(d, uuid) == d

\* if self.dirty.contains(uuid) { self.dirty.remove(&uuid); }
delete_dirty(d, uuid) == d \ {uuid}

\* The pushed copy left unmarked.
tombstone_live(envelope) == envelope

\* envelope.deleted = Some(true)
tombstone(envelope) == [envelope EXCEPT !.deleted = Some(TRUE)]

\* delete.  rm_ok: remove_file meets no I/O error other than a missing file.
delete ==
    /\ live
    /\ \E uuid \in UUIDs, item_key \in ItemKeys, rm_ok \in BOOLEAN,
          resp \in IF client THEN {SyncFailure} \cup PushResponses ELSE {SyncFailure} :
        LET pushes == client /\ uuid \in DOMAIN items
            envelope == tombstone(Item_encrypt(crypto, items[uuid], item_key))
            removed == rm_ok /\ uuid \in DOMAIN disk
        IN /\ dirty' = delete_dirty(dirty, uuid)
           /\ IF pushes
              THEN /\ net' = <<Exchange(<<envelope>>, sync_token, resp, FALSE, DOMAIN disk)>>
                   /\ sync_token' = Client_sync(sync_token, resp)
              ELSE /\ resp = SyncFailure
                   /\ net' = <<>>
                   /\ UNCHANGED sync_token
           /\ IF pushes /\ ~resp.ok
              THEN /\ rm_ok
                   /\ last' = Op("delete", Some(uuid), None, None, "err")
                   /\ UNCHANGED <<items, disk>>
              ELSE IF ~removed
              THEN /\ last' = Op("delete", Some(uuid), None, None, "err")
                   /\ UNCHANGED <<items, disk>>
              ELSE /\ disk' = Remove(disk, uuid)
                   /\ items' = Remove(items, uuid)
                   /\ last' = Op("delete", Some(uuid), None, None, "ok")
    /\ UNCHANGED <<current, crypto, client, now, used, live, server, credentials, auth_token, http, call, loop>>

\* What one Storage::flush meets: whether the write succeeds and what the
\* server answers to the push.
FlushEnvs(hasClient) ==
    {[write_ok |-> FALSE, resp |-> SyncFailure]} \cup
    [write_ok : {TRUE},
     resp : IF hasClient THEN {SyncFailure} \cup PushResponses ELSE {SyncFailure}]

\* Storage::flush on the store st = [items, known, disk, token, net, result, error].
flush(st, item, e, hasClient) ==
    IF ~e.write_ok THEN [st EXCEPT !.result = "err"]
    ELSE LET d == flush_to_disk(st.disk, item.uuid, item)
         IN IF ~hasClient THEN [st EXCEPT !.disk = d]
            ELSE [st EXCEPT !.disk = d,
                            !.net = Append(@, Exchange(<<item>>, st.token, e.resp, FALSE,
                                                       DOMAIN d)),
                            !.token = Client_sync(@, e.resp),
                            !.result = IF e.resp.ok THEN "ok" ELSE "err"]

\* insert_encrypted_items from position i of the batch; env[i] is what the
\* flush of batch[i] meets.
RECURSIVE insert_encrypted_items(_, _, _, _, _, _)
insert_encrypted_items(st, key, batch, i, env, hasClient) ==
    IF i > Len(batch) THEN st
    ELSE LET item == batch[i]
             result == Envelope_decrypt(key, item)
         IN CASE result.tag = "ok" ->
                  LET inserted == [st EXCEPT !.items = Put(@, item.uuid, result.val)]
                      flushed == flush(inserted, item, env[i], hasClient)
                  IN IF flushed.result # "ok" THEN flushed
                     ELSE insert_encrypted_items(flushed, key, batch, i + 1, env, hasClient)
              [] result.tag = "unknown" ->
                  insert_encrypted_items(st, key, batch, i + 1, env, hasClient)
              [] OTHER -> [st EXCEPT !.result = result.tag]

\* The positions of a batch whose envelope is flushed when no flush fails,
\* and what the flushes can meet: nothing is met after the first failure.
Flushed(key, batch) ==
    {i \in DOMAIN batch :
        /\ Envelope_decrypt(key, batch[i]).tag = "ok"
        /\ \A j \in 1..(i - 1) : Envelope_decrypt(key, batch[j]).tag \in {"ok", "unknown"}}
Failed(e) == ~e.write_ok \/ ~e.resp.ok
Environments(key, batch, hasClient) ==
    {env \in [Flushed(key, batch) -> FlushEnvs(hasClient)] :
        \A i, j \in DOMAIN env :
            i < j /\ (IF hasClient THEN Failed(env[i]) ELSE ~env[i].write_ok)
                => env[j] = [write_ok |-> FALSE, resp |-> SyncFailure]}

\* A scan that trusts the file names.
RECURSIVE load_unchecked(_, _, _, _, _)
load_unchecked(st, key, d, order, i) ==
    IF i > Len(order) THEN st
    ELSE LET uuid == order[i]
             item == d[uuid]
             result == Envelope_decrypt(key, item)
         IN IF result.tag = "panic" THEN [st EXCEPT !.result = "panic"]
            ELSE IF result.tag # "ok" THEN [st EXCEPT !.result = "err", !.error = "decrypt"]
            ELSE load_unchecked([st EXCEPT !.items = Put(@, uuid, result.val),
                                           !.known = Append(@, item)],
                                key, d, order, i + 1)

\* A scan that keeps the items and forgets the envelopes they came from.
RECURSIVE load_items_only(_, _, _, _, _)
load_items_only(st, key, d, order, i) ==
    IF i > Len(order) THEN st
    ELSE LET uuid == order[i]
             item == d[uuid]
             result == Envelope_decrypt(key, item)
         IN IF uuid # item.uuid THEN [st EXCEPT !.result = "err", !.error = "File is corrupted"]
            ELSE IF result.tag = "panic" THEN [st EXCEPT !.result = "panic"]
            ELSE IF result.tag # "ok" THEN [st EXCEPT !.result = "err", !.error = "decrypt"]
            ELSE load_items_only([st EXCEPT !.items = Put(@, uuid, result.val)],
                                 key, d, order, i + 1)

\* The directory scan of Storage::new, files visited in the given order.
\* error is the message of the error the scan returned.
RECURSIVE load(_, _, _, _, _)
load(st, key, d, order, i) ==
    IF i > Len(order) THEN st
    ELSE LET uuid == order[i]
             item == d[uuid]
             result == Envelope_decrypt(key, item)
         IN IF uuid # item.uuid THEN [st EXCEPT !.result = "err", !.error = "File is corrupted"]
            ELSE IF result.tag = "panic" THEN [st EXCEPT !.result = "panic"]
            ELSE IF result.tag # "ok" THEN [st EXCEPT !.result = "err", !.error = "decrypt"]
            ELSE load([st EXCEPT !.items = Put(@, uuid, result.val),
                                 !.known = Append(@, item)],
                      key, d, order, i + 1)

\* The outcome of constructing a store: installed on success, none on an
\* error, the process gone on a panic.  batch is Some(b) when
\* insert_encrypted_items(b) was called.
Constructed(op, st, batch, hasClient) ==
    /\ used' = used \cup (DOMAIN st.items) \cup
                UNION {{b[i].uuid : i \in DOMAIN b} : b \in Range(batch)}
    /\ CASE st.result = "panic" -> Crash(op, None, None, batch, st.disk)
         [] st.result = "err" ->
                /\ disk' = st.disk
                /\ net' = st.net
                /\ last' = Op(op, None, None, batch, "err")
                /\ UNCHANGED <<items, dirty, current, crypto, client, sync_token, now, live, server, credentials, auth_token, http, call, loop>>
         [] OTHER ->
                /\ items' = st.items
                /\ dirty' = {}
                /\ current' = None
                /\ client' = hasClient
                /\ sync_token' = st.token
                /\ disk' = st.disk
                /\ net' = st.net
                /\ last' = Op(op, None, None, batch, "ok")
                /\ live' = TRUE
                /\ UNCHANGED <<crypto, now, server, credentials, auth_token, http, call, loop>>

Fresh == [items |-> Empty, known |-> <<>>, disk |-> disk, token |-> None, net |-> <<>>,
          result |-> "ok", error |-> ""]

\* The store has no Drop implementation: when the application replaces it
\* or exits, the memory goes and the bucket stays as it is.  The outcome of
\* a construction that failed is dropped the same way.
drop ==
    /\ live \/ last.op \notin {"start", "drop"}
    /\ live' = FALSE
    /\ items' = Empty
    /\ dirty' = {}
    /\ current' = None
    /\ client' = FALSE
    /\ sync_token' = None
    /\ last' = Op("drop", None, None, None, "ok")
    /\ net' = <<>>
    /\ credentials' = None
    /\ auth_token' = None
    /\ http' = <<>>
    /\ call' = NoCall
    /\ UNCHANGED <<crypto, disk, now, used, server, loop>>

\* Storage::new(credentials, client).  read_ok: the directory and its files
\* can be read.
open ==
    /\ ~live /\ last.op \in {"start", "drop"}
    /\ \E hasClient \in {FALSE} \cup {server}, order \in Orders(DOMAIN disk),
          read_ok \in BOOLEAN :
        LET loaded == IF read_ok THEN load(Fresh, crypto, disk, order, 1)
                      ELSE [Fresh EXCEPT !.result = "err"]
        IN IF loaded.result # "ok" \/ ~hasClient
           THEN Constructed("open", loaded, None, hasClient)
           ELSE \E resp \in {SyncFailure} \cup SyncResponses :
                \E env \in Environments(crypto, resp.retrieved, TRUE) :
                    LET synced == [loaded EXCEPT
                                     !.net = <<Exchange(loaded.known, None, resp, TRUE,
                                                        DOMAIN disk)>>,
                                     !.token = Client_sync(@, resp),
                                     !.result = IF resp.ok THEN "ok" ELSE "err"]
                        st == IF ~resp.ok THEN synced
                              ELSE insert_encrypted_items(synced, crypto, resp.retrieved,
                                                          1, env, TRUE)
                    IN Constructed("open", st,
                                   IF resp.ok THEN Some(resp.retrieved) ELSE None, TRUE)

\* Storage::new_from_items(credentials, items): an archive is imported.
import ==
    /\ ~live /\ last.op \in {"start", "drop"}
    /\ \E batch \in Batches, order \in Orders(DOMAIN disk), read_ok \in BOOLEAN :
       \E env \in Environments(crypto, batch, FALSE) :
        LET loaded == IF read_ok THEN load(Fresh, crypto, disk, order, 1)
                      ELSE [Fresh EXCEPT !.result = "err"]
            st == IF loaded.result # "ok" THEN loaded
                  ELSE insert_encrypted_items(loaded, crypto, batch, 1, env, FALSE)
        IN Constructed("import", st,
                       IF loaded.result = "ok" THEN Some(batch) ELSE None, FALSE)

Next ==
    \/ create_note
    \/ set_current_uuid
    \/ set_text
    \/ set_title
    \/ flush_dirty
    \/ delete
    \/ drop
    \/ open
    \/ import

Spec == Init /\ [][Next]_vars

SpecSync == InitSync /\ [][Next]_vars
\* Storage::new(credentials, client) as a function of what it meets: the
\* bucket d scanned in the given order, the answer to the first sync and the
\* environment of the flushes of insert_encrypted_items.
Storage_new(creds, d, order, read_ok, hasClient, resp, env) ==
    LET schedule == Crypto_new(creds)
        fresh == [items |-> Empty, known |-> <<>>, disk |-> d, token |-> None,
                  net |-> <<>>, result |-> "ok", error |-> ""]
        loaded == IF schedule.tag # "ok" \/ ~read_ok THEN [fresh EXCEPT !.result = "err"]
                  ELSE load(fresh, schedule.val.mk, d, order, 1)
        synced == [loaded EXCEPT
                     !.net = <<Exchange(loaded.known, None, resp, TRUE, DOMAIN d)>>,
                     !.token = Client_sync(@, resp),
                     !.result = IF resp.ok THEN "ok" ELSE "err"]
    IN IF loaded.result # "ok" \/ ~hasClient THEN loaded
       ELSE IF ~resp.ok THEN synced
       ELSE insert_encrypted_items(synced, schedule.val.mk, resp.retrieved, 1, env, TRUE)

\* .bearer_auth(&self.auth_token): the requests of a client carry its token.
Bearer(exchanges, token) ==
    [i \in DOMAIN exchanges |-> [exchanges[i] EXCEPT !.bearer = Some(token)]]

\* The store st installed as the application's storage.
Install(op, st, creds, token, hasClient) ==
    /\ items' = st.items
    /\ dirty' = {}
    /\ current' = None
    /\ crypto' = Crypto_new(creds).val.mk
    /\ client' = hasClient
    /\ sync_token' = st.token
    /\ disk' = st.disk
    /\ used' = used \cup DOMAIN st.items
    /\ last' = Op(op, None, None, None, "ok")
    /\ live' = TRUE
    /\ credentials' = Some(creds)
    /\ auth_token' = token
    /\ UNCHANGED <<now, server, loop>>

\* No store: the constructor failed, or the process went down in a panic.
NoStore(op, d, result) ==
    /\ disk' = d
    /\ last' = Op(op, None, None, None, result)
    /\ UNCHANGED <<items, dirty, current, crypto, client, sync_token, now, used, live,
                   server, credentials, auth_token, loop>>

\* The Register and SignIn handlers once the constructor returned: on Ok
\* the store is opened with the client and its credentials and the result
\* unwrapped, on Err a notification is shown.
Connect(op, fn, creds, made) ==
    /\ http' = made.requests
    /\ call' = Call(fn, creds, None, None, made.result)
    /\ IF made.result.tag # "ok"
       THEN /\ NoStore(op, disk, made.result.tag)
            /\ net' = <<>>
       ELSE \E order \in Orders(DOMAIN disk), read_ok \in BOOLEAN,
               resp \in {SyncFailure} \cup SyncResponses :
            LET c == made.result.val
                key == Crypto_new(c.credentials).val.mk
            IN \E env \in Environments(key, resp.retrieved, TRUE) :
                LET st == Storage_new(c.credentials, disk, order, read_ok, TRUE, resp, env)
                IN /\ net' = Bearer(st.net, c.auth_token)
                   /\ IF st.result # "ok"
                      THEN NoStore(op, st.disk, "panic")
                      ELSE Install(op, st, c.credentials, Some(c.auth_token), TRUE)

\* AppEvent::Register(server, credentials)
register ==
    /\ ~live /\ last.op \in {"start", "drop"}
    /\ \E creds \in CredentialsSet, response \in AuthResponses :
        Connect("register", "new_register", creds, new_register(creds, response))

\* AppEvent::SignIn(server, credentials)
sign_in ==
    /\ ~live /\ last.op \in {"start", "drop"}
    /\ \E creds \in CredentialsSet, params \in ParamsResponses, response \in AuthResponses :
        Connect("sign_in", "new_sign_in", creds, new_sign_in(creds, params, response))

\* Storage::new(&credentials, None) with the credentials of the configuration.
open_with ==
    /\ ~live /\ last.op \in {"start", "drop"}
    /\ \E creds \in CredentialsSet, order \in Orders(DOMAIN disk), read_ok \in BOOLEAN :
        LET st == Storage_new(creds, disk, order, read_ok, FALSE, SyncFailure, <<>>)
        IN /\ call' = Call("Crypto::new", creds, None, None, Crypto_new(creds))
           /\ net' = <<>>
           /\ UNCHANGED http
           /\ IF st.result # "ok" THEN NoStore("open_with", st.disk, st.result)
              ELSE Install("open_with", st, creds, None, FALSE)

NextAuth ==
    \/ register
    \/ sign_in
    \/ open_with
    \/ drop
    \/ flush_dirty
    \/ delete

\* The application signing in, registering and switching stores.
SpecAuth == InitSync /\ [][NextAuth]_vars

(***************************************************************************)
(* The codec called on its own.                                            *)
(***************************************************************************)
\* Ciphertext strings of four, five and six fields.
Ciphertexts ==
    [n : {4, 5, 6}, version : {"002", "003"}, uuid : UUIDs, key : Keys, plain : ItemKeys]

PlainNotes ==
    {Note(title, text, c, u, uuid) :
        title \in Str, text \in Str, c \in Times, u \in Times, uuid \in UUIDs}
PlainTags ==
    {Tag(title, refs, c, u, uuid) :
        title \in Str, refs \in SeqsUpTo(UUIDs, 1), c \in Times, u \in Times, uuid \in UUIDs}

\* decrypt(s, ek, ak, check_uuid)
call_decrypt ==
    /\ \E s \in Ciphertexts, key \in Keys, check_uuid \in UUIDs :
        call' = Call("decrypt", s, key, check_uuid, decrypt(s, key, check_uuid))
    /\ UNCHANGED <<items, dirty, current, crypto, client, sync_token, disk, now, used,
                   last, net, live, server, credentials, auth_token, http, loop>>

\* item.encrypt(crypto) followed by envelope.decrypt(crypto)
round_trip ==
    /\ \E item \in PlainNotes \cup PlainTags, key \in Keys, item_key \in ItemKeys :
        call' = Call("round_trip", item, key, item.uuid,
                     Envelope_decrypt(key, Item_encrypt(key, item, item_key)))
    /\ UNCHANGED <<items, dirty, current, crypto, client, sync_token, disk, now, used,
                   last, net, live, server, credentials, auth_token, http, loop>>

NextCodec ==
    \/ call_decrypt
    \/ round_trip

SpecCodec == Init /\ [][NextCodec]_vars

(***************************************************************************)
(* The bucket between two runs.                                            *)
(***************************************************************************)
\* A file of the bucket is copied or renamed to the name of another uuid
\* while no store is open: Storage::new reads whatever the directory holds.
tamper ==
    /\ ~live /\ last.op \in {"start", "drop"}
    /\ \E uuid \in DOMAIN disk, name \in UUIDs, keep \in BOOLEAN :
        /\ name # uuid
        /\ disk' = Put(IF keep THEN disk ELSE Remove(disk, uuid), name, disk[uuid])
    /\ UNCHANGED <<items, dirty, current, crypto, client, sync_token, now, used, last, net,
                   live, server, credentials, auth_token, http, call, loop>>

NextBucket ==
    \/ open
    \/ drop
    \/ tamper

SpecBucket == InitSync /\ [][NextBucket]_vars

(***************************************************************************)
(* The archive of a store.                                                 *)
(***************************************************************************)
\* Authentication parameters announcing the scheme 002.
AuthParams_from_credentials_002(creds) ==
    [identifier |-> creds.identifier, pw_cost |-> creds.cost, pw_nonce |-> creds.nonce,
     version |-> "002"]

\* AuthParams::from_credentials
AuthParams_from_credentials(creds) ==
    [identifier |-> creds.identifier, pw_cost |-> creds.cost, pw_nonce |-> creds.nonce,
     version |-> "003"]

Exported(auth_params, envelopes) == [auth_params |-> auth_params, items |-> envelopes]

\* Storage::export: the values of the map in the order the map yields them,
\* each encrypted under an item key of its own.
export ==
    /\ live
    /\ \E order \in Orders(DOMAIN items), item_key \in [DOMAIN items -> ItemKeys] :
        call' = Call("export", None, None, None,
                     Ok(Exported(AuthParams_from_credentials(Unwrap(credentials)),
                                 [i \in DOMAIN order |->
                                     Item_encrypt(crypto, items[order[i]],
                                                  item_key[order[i]])])))
    /\ UNCHANGED <<items, dirty, current, crypto, client, sync_token, disk, now, used,
                   last, net, live, server, credentials, auth_token, http, loop>>

NextExport ==
    \/ register
    \/ create_note
    \/ set_current_uuid
    \/ set_title
    \/ export
    \/ drop

SpecExport == InitSync /\ [][NextExport]_vars

(***************************************************************************)
(* The event loop of the application (application.rs): one callback at a   *)
(* time on the main context, each AppEvent handled to its end before the   *)
(* next one is received.                                                   *)
(***************************************************************************)
MaxEvents == 2
MaxTimers == 2

\* A timer armed at every Update.
arms_always(running) == TRUE

\* if !flush_timer_running
arms(running) == ~running

InitLoop == Start /\ server = FALSE /\ now = MaxTime

\* AppEvent::CreateStorage
CreateStorage == handler = "idle" /\ open

\* AppEvent::AddNote
AddNote == handler = "idle" /\ create_note

\* AppEvent::SelectNote: from here on the change handlers of the title
\* entry and of the text buffer are connected.
SelectNote == handler = "idle" /\ set_current_uuid

\* A change handler runs: sender.send(AppEvent::Update(..)).
edit ==
    /\ live /\ handler = "idle" /\ IsSome(current)
    /\ Len(events) < MaxEvents
    /\ \E e \in {"UpdateTitle", "UpdateText"} : events' = Append(events, e)
    /\ UNCHANGED <<store, last, flush_timer_running, timers, handler>>

\* The timeout source fires once: sender.send(AppEvent::FlushDirty).
timer_fires ==
    /\ live /\ handler = "idle"
    /\ timers > 0
    /\ timers' = timers - 1
    /\ events' = Append(events, "FlushDirty")
    /\ UNCHANGED <<store, last, flush_timer_running, handler>>

\* The receiver hands the oldest event to its arm of the match.
dispatch ==
    /\ live /\ handler = "idle"
    /\ events # <<>>
    /\ handler' = Head(events)
    /\ events' = Tail(events)
    /\ last' = Op(Head(events), None, None, None, "ok")
    /\ UNCHANGED <<store, flush_timer_running, timers>>

\* AppEvent::Update: the setter of the field the event carries.
Update_call ==
    \/ handler = "UpdateTitle" /\ last.op = "UpdateTitle" /\ set_title
    \/ handler = "UpdateText" /\ last.op = "UpdateText" /\ set_text

\* AppEvent::Update after the setter: its result is unwrapped, then the
\* timer is armed unless the flag says one is running.
Update_return ==
    /\ live /\ handler \in {"UpdateTitle", "UpdateText"}
    /\ last.op \in {"set_title", "set_text"}
    /\ IF last.result # "ok"
       THEN Crash(handler, None, None, None, disk) /\ UNCHANGED used
       ELSE /\ handler' = "idle"
            /\ IF arms(flush_timer_running)
               THEN /\ timers' = IF timers < MaxTimers THEN timers + 1 ELSE timers
                    /\ flush_timer_running' = TRUE
               ELSE UNCHANGED <<timers, flush_timer_running>>
            /\ UNCHANGED <<store, last, events>>

\* AppEvent::FlushDirty: storage.flush_dirty()
FlushDirty_call == handler = "FlushDirty" /\ last.op = "FlushDirty" /\ flush_dirty

\* AppEvent::FlushDirty after the flush: the flag is cleared on Ok; on Err
\* g_error! logs at the error level, after which the process is ended or,
\* should the log return, the handler is left with the flag still set.
FlushDirty_return ==
    /\ live /\ handler = "FlushDirty"
    /\ last.op = "flush_dirty"
    /\ IF last.result = "ok"
       THEN /\ flush_timer_running' = FALSE
            /\ handler' = "idle"
            /\ UNCHANGED <<store, last, timers, events>>
       ELSE \/ Crash("FlushDirty", None, None, None, disk) /\ UNCHANGED used
            \/ /\ handler' = "idle"
               /\ UNCHANGED <<store, last, flush_timer_running, timers, events>>

NextLoop ==
    \/ CreateStorage
    \/ AddNote
    \/ SelectNote
    \/ edit
    \/ timer_fires
    \/ dispatch
    \/ Update_call
    \/ Update_return
    \/ FlushDirty_call
    \/ FlushDirty_return

SpecLoop == InitLoop /\ [][NextLoop]_vars

\* AppEvent::Switch: Storage::new(&credentials, None).unwrap() takes the
\* place of the store in use, which is dropped as it is.
Switch ==
    /\ live /\ handler = "idle"
    /\ \E order \in Orders(DOMAIN disk), read_ok \in BOOLEAN :
        LET loaded == IF read_ok THEN load(Fresh, crypto, disk, order, 1)
                      ELSE [Fresh EXCEPT !.result = "err"]
        IN Constructed("Switch",
                       IF loaded.result = "ok" THEN loaded
                       ELSE [loaded EXCEPT !.result = "panic"],
                       None, FALSE)

NextSwitch ==
    \/ NextLoop
    \/ Switch

\* The main context runs every source that is ready: a handler that was
\* entered runs to its end; an armed timeout fires and an event in the
\* channel is received at one of the returns to the main loop, however many
\* other events arrive.  Nothing obliges the user to act.
SpecSwitch ==
    /\ InitLoop /\ [][NextSwitch]_vars
    /\ SF_vars(timer_fires) /\ SF_vars(dispatch)
    /\ WF_vars(Update_call) /\ WF_vars(Update_return)
    /\ WF_vars(FlushDirty_call) /\ WF_vars(FlushDirty_return)

(***************************************************************************)
(* Properties.                                                             *)
(***************************************************************************)
Arg == Unwrap(last.uuid)
Stored(d, uuid) == Envelope_decrypt(crypto, d[uuid])
Known(e) == e.content_type \in {"Note", "Tag"}
SameFile(uuid) ==
    /\ uuid \in DOMAIN disk' <=> uuid \in DOMAIN disk
    /\ uuid \in DOMAIN disk => disk'[uuid] = disk[uuid]

\* The items a store holds right after the directory scan.
Loaded(d) == [uuid \in DOMAIN d |-> Stored(d, uuid).val]

\* The items and the files after every envelope of b was inserted.
RECURSIVE Reconciled(_, _, _)
Reconciled(its, b, k) ==
    IF k = 0 THEN its
    ELSE Put(Reconciled(its, b, k - 1), b[k].uuid, Envelope_decrypt(crypto, b[k]).val)
RECURSIVE ReconciledDisk(_, _, _)
ReconciledDisk(d, b, k) ==
    IF k = 0 THEN d ELSE Put(ReconciledDisk(d, b, k - 1), b[k].uuid, b[k])

\* C1: after flush_dirty returned success the bucket mirrors the store: a
\* file for every key of items, decrypting to the item, and no other file.
Mirror ==
    /\ DOMAIN disk = DOMAIN items
    /\ \A uuid \in DOMAIN items :
        Stored(disk, uuid).tag = "ok" /\ Stored(disk, uuid).val = items[uuid]
C1_FlushMirrorsStore == (live /\ last.op = "flush_dirty" /\ last.result = "ok") => Mirror

\* C2: in every reachable state every dirty uuid is a key of items.
C2_DirtyInItems == dirty \subseteq DOMAIN items
C2_Witness ==
    /\ last.op = "delete" /\ last.result = "err"
    /\ dirty # {} /\ Arg \in DOMAIN items

\* C3: flush_dirty empties the dirty set when it returns Ok and leaves it as
\* it was when it returns an error.
C3_FlushClearsOnSuccessOnly ==
    [][last'.op = "flush_dirty" =>
        IF last'.result = "ok" THEN dirty' = {} ELSE dirty' = dirty]_vars
C3_Witness ==
    /\ last.op = "flush_dirty" /\ last.result = "err"
    /\ dirty # {} /\ Len(net) = 1 /\ ~net[1].ok

\* C4: with current naming a Note, set_title(s) / set_text(s) stores s, marks
\* current dirty and the getter returns s until the field is set again; with
\* no current uuid the setters fail and change neither items nor dirty.
CurrentNote ==
    /\ IsSome(current) /\ Unwrap(current) \in DOMAIN items
    /\ items[Unwrap(current)].kind = "Note"
C4_SetThenGet ==
    [][/\ last'.op = "set_title" /\ CurrentNote =>
            /\ last'.result = "ok"
            /\ items'[Unwrap(current)].title = Unwrap(last'.str)
            /\ Unwrap(current) \in dirty'
            /\ get_title' = Ok(Unwrap(last'.str))
       /\ last'.op = "set_text" /\ CurrentNote =>
            /\ last'.result = "ok"
            /\ items'[Unwrap(current)].text = Unwrap(last'.str)
            /\ Unwrap(current) \in dirty'
            /\ get_text' = Ok(Unwrap(last'.str))
       /\ last'.op \in {"set_title", "set_text"} /\ current = None =>
            last'.result = "err" /\ items' = items /\ dirty' = dirty
       /\ last'.op \in {"set_text", "create_note", "flush_dirty"} /\ get_title.tag = "ok" =>
            get_title' = get_title
       /\ last'.op \in {"set_title", "create_note", "flush_dirty"} /\ get_text.tag = "ok" =>
            get_text' = get_text]_vars
C4_Witness ==
    /\ last.op = "set_text" /\ last.result = "ok"
    /\ get_title = Ok("a") /\ get_text = Ok("")
    /\ Unwrap(current) \in dirty

\* C5: delete of an item that has no file returns success and removes the
\* item from items.
C5_DeleteWithoutFile ==
    [][(/\ last'.op = "delete"
        /\ Arg' \in DOMAIN items
        /\ Arg' \notin DOMAIN disk)
        => (last'.result = "ok" /\ Arg' \notin DOMAIN items')]_vars

\* C6: delete with a client attached and the uuid in items sends exactly one
\* request, the tombstone of that uuid alone, while the file is still in the
\* bucket; when it returns success the file and the item are gone.
C6_DeletePushesTombstone ==
    [][(last'.op = "delete" /\ client /\ Arg' \in DOMAIN items) =>
        /\ Len(net') = 1
        /\ Len(net'[1].items) = 1
        /\ net'[1].items[1].uuid = Arg'
        /\ net'[1].items[1].deleted = Some(TRUE)
        /\ net'[1].files = DOMAIN disk
        /\ ~net'[1].ok => disk' = disk /\ last'.result = "err"
        /\ last'.result = "ok" => Arg' \notin DOMAIN disk' /\ Arg' \notin DOMAIN items']_vars
C6_Witness ==
    /\ last.op = "delete" /\ last.result = "ok"
    /\ Len(net) = 1 /\ net[1].ok
    /\ net[1].items[1].deleted = Some(TRUE)
    /\ Arg \in net[1].files /\ Arg \notin DOMAIN disk

\* C7: delete takes the uuid out of the dirty set whatever it returns, and
\* flush_dirty writes and pushes envelopes of dirty uuids only, so no flush
\* after a delete brings the uuid back.
C7_DeleteLeavesDirtyFirst ==
    [][/\ last'.op = "delete" => Arg' \notin dirty'
       /\ last'.op = "delete" /\ last'.result = "ok" =>
            Arg' \notin DOMAIN items' /\ Arg' \notin DOMAIN disk'
       /\ last'.op = "flush_dirty" =>
            /\ \A uuid \in UUIDs \ dirty : SameFile(uuid)
            /\ \A i \in DOMAIN net' : \A j \in DOMAIN net'[i].items :
                    net'[i].items[j].uuid \in dirty]_vars
C7_Witness ==
    /\ last.op = "delete" /\ last.result = "err"
    /\ Arg \in DOMAIN items /\ Arg \in DOMAIN disk /\ Arg \notin dirty
    /\ Stored(disk, Arg).val # items[Arg]

\* C8: the retrieved items of every successful sync are handed to
\* insert_encrypted by the operation that made the call.
C8_RetrievedReconciled ==
    \A i \in DOMAIN net : (net[i].ok /\ net[i].retrieved > 0) => net[i].reconciled

\* C9: inserting a batch has the outcome of inserting it without its
\* envelopes of unknown content type: they fail no call, enter neither items
\* nor the bucket, and the envelopes around them are processed.
C9_UnknownTypeSkipped ==
    [][\A b \in Range(last'.batch) :
        LET kept == SelectSeq(b, Known)
        IN /\ kept = <<>> => last'.result = "ok"
           /\ last'.result = "ok" =>
                /\ items' = Reconciled(Loaded(disk), kept, Len(kept))
                /\ disk' = ReconciledDisk(disk, kept, Len(kept))]_vars
C9_Witness ==
    /\ last.result = "ok" /\ last.batch = Some(<<RemoteUnknown, RemoteTag>>)
    /\ DOMAIN items = {RemoteTag.uuid} /\ DOMAIN disk = {RemoteTag.uuid}

\* C10: on the first envelope of a known type that does not decrypt the
\* insertion returns the error, and whenever it fails nothing beyond the
\* failing envelope has been written.
C10_OtherFailuresAbort ==
    [][\A b \in Range(last'.batch) :
        LET bad == {i \in DOMAIN b : Known(b[i]) /\ Envelope_decrypt(crypto, b[i]).tag # "ok"}
            upto == IF bad = {} THEN Len(b) ELSE Min(bad) - 1
        IN /\ bad # {} => last'.result = "err"
           /\ last'.result # "ok" =>
                \E k \in 0..upto :
                    LET kept == SelectSeq(SubSeq(b, 1, k), Known)
                    IN disk' = ReconciledDisk(disk, kept, Len(kept))]_vars

\* C11: a batch of tombstones (deleted = true, no content, no enc_item_key)
\* fails neither insert_encrypted_items nor the open that pulled it.
Tombstone(e) == e.deleted = Some(TRUE) /\ e.content = None /\ e.enc_item_key = None
C11_TombstoneNotFailure ==
    [][\A b \in Range(last'.batch) :
        (b # <<>> /\ \A i \in DOMAIN b : Tombstone(b[i])) => last'.result = "ok"]_vars

\* C12: the first request of a client carries a null sync_token, a later one
\* the cursor the client stored, which after a successful sync is the
\* sync_token of that response; cursor_token is null in every request.
C12_CursorProgression ==
    [][\A i \in DOMAIN net' :
        /\ net'[i].cursor_token = None
        /\ i = 1 /\ last'.op = "open" => net'[i].sync_token = None
        /\ i = 1 /\ last'.op # "open" => net'[i].sync_token = sync_token
        /\ i > 1 /\ net'[i - 1].ok => net'[i].sync_token = net'[i - 1].response_token
        /\ i = Len(net') /\ net'[i].ok /\ live' => sync_token' = net'[i].response_token]_vars
C12_Witness ==
    /\ last.op = "flush_dirty" /\ Len(net) = 1 /\ net[1].ok
    /\ net[1].sync_token = Some("t1") /\ net[1].response_token = None
    /\ sync_token = None

\* C13: a sync that fails makes the operation return an error and leaves the
\* stored cursor as it was: the next request carries the sync_token of the
\* failed one.
C13_FailedSyncKeepsCursor ==
    [][/\ \A i \in DOMAIN net' :
            ~net'[i].ok =>
                /\ i = Len(net') /\ last'.result = "err"
                /\ live' => sync_token' = net'[i].sync_token
       /\ (live /\ net # <<>> /\ ~net[Len(net)].ok /\ net' # <<>> /\ last'.op # "open") =>
                net'[1].sync_token = net[Len(net)].sync_token]_vars
C13_Witness ==
    /\ last.op = "delete" /\ last.result = "err" /\ Len(net) = 1 /\ ~net[1].ok
    /\ net[1].sync_token = Some("t1") /\ sync_token = Some("t1")

\* C20: every envelope produced by encrypting an item carries the content
\* type of the variant encrypted: what delete pushes for a Tag is a "Tag".
C20_ContentTypeOfVariant ==
    [][(last'.op = "delete" /\ net' # <<>>) =>
        net'[1].items[1].content_type = items[Arg'].kind]_vars

\* The password proof of credentials c and the master key of a store opened
\* with them, None when no key schedule can be built.
Proof(c) ==
    IF Crypto_new(c).tag = "ok" THEN Some(Crypto_password(Crypto_new(c).val)) ELSE None
MasterKey(c) == IF Crypto_new(c).tag = "ok" THEN Some(Crypto_new(c).val.mk) ELSE None
\* The caller's credentials with the cost and nonce of the params response.
Rewritten(c, log) ==
    [c EXCEPT !.cost = log[1].response.pw_cost, !.nonce = log[1].response.pw_nonce]

\* C14: sign-in sends GET /auth/params first and POST /auth/sign_in second;
\* the password of the POST is derived from the caller's credentials with
\* cost and nonce replaced by those of the params response, the client holds
\* the rewritten credentials and the store is opened with them.
C14_SignInRewrites ==
    [][last'.op = "sign_in" =>
        /\ Len(http') \in {1, 2}
        /\ http'[1].method = "GET" /\ http'[1].path = "/auth/params"
        /\ Len(http') = 2 =>
            /\ http'[1].response.ok
            /\ http'[2].method = "POST" /\ http'[2].path = "/auth/sign_in"
            /\ http'[2].password = Proof(Rewritten(call'.input, http'))
            /\ call'.output.tag = "ok" =>
                    call'.output.val.credentials = Rewritten(call'.input, http')
            /\ live' =>
                    /\ credentials' = Some(Rewritten(call'.input, http'))
                    /\ Some(crypto') = MasterKey(Rewritten(call'.input, http'))]_vars
C14_Witness ==
    /\ last.op = "sign_in" /\ live /\ crypto = "k1"
    /\ call.input.cost # Unwrap(credentials).cost
    /\ call.input.nonce # Unwrap(credentials).nonce

\* C15: the password of every POST /auth and POST /auth/sign_in is the hex
\* pw key of the key schedule, and no request holds the passphrase.
C15_PasswordIsDerived ==
    \A i \in DOMAIN http :
        /\ \A p \in Passphrases : http[i].password # Some(p)
        /\ http[i].path = "/auth" => http[i].password = Proof(call.input)
        /\ http[i].path = "/auth/sign_in" =>
                http[i].password = Proof(Rewritten(call.input, http))
        /\ http[i].method = "POST" => IsSome(http[i].password)
C15_Witness ==
    /\ last.op = "register" /\ live /\ Len(http) = 1 /\ http[1].path = "/auth"
    /\ http[1].password = Some(<<"hex", <<"pw", "user", 2, "n2", <<"secret">>>>>>)

\* C16: a response to POST /auth or POST /auth/sign_in whose status is not
\* 200 makes the constructor return the error errors[0] and leaves no client
\* and no token; with status 200 the token of the response is the bearer
\* token of every sync of the client.
C16_ErrorStatusIsError ==
    [][/\ (/\ last'.op \in {"register", "sign_in"}
           /\ http' # <<>>
           /\ http'[Len(http')].method = "POST"
           /\ http'[Len(http')].response.sent) =>
            LET r == http'[Len(http')].response
            IN /\ (r.status # 200 /\ r.body.kind = "ErrorResponse") =>
                    /\ call'.output.tag = "err"
                    /\ r.body.errors # <<>> => call'.output.val = r.body.errors[1]
                    /\ ~live'
                    /\ auth_token' = None
               /\ (r.status = 200 /\ r.body.kind = "SignInResponse" /\ live') =>
                    /\ auth_token' = Some(r.body.token)
                    /\ \A i \in DOMAIN net' : net'[i].bearer = Some(r.body.token)
       /\ last'.op \in {"flush_dirty", "delete"} =>
            /\ auth_token' = auth_token
            /\ \A i \in DOMAIN net' : net'[i].bearer = auth_token]_vars

\* C17: credentials with cost 0 are rejected with the invalid-cost error, by
\* nothing else, and give no key schedule: opening a store with them returns
\* an error, registering with them sends nothing, and a sign-in whose params
\* response has pw_cost 0 returns the error after the GET alone.
InvalidCost(result) == result.tag = "err" /\ result.val = "Cost must be larger than zero"
C17_ZeroCostRejected ==
    [][/\ last'.op \in {"open_with", "register"} =>
            /\ call'.input.cost = 0 <=> InvalidCost(call'.output)
            /\ call'.input.cost = 0 =>
                    /\ last'.result = "err" /\ ~live' /\ UNCHANGED <<disk, crypto>>
                    /\ last'.op = "register" => http' = <<>>
       /\ (last'.op = "sign_in" /\ http'[1].response.ok) =>
            /\ http'[1].response.pw_cost = 0 <=> InvalidCost(call'.output)
            /\ http'[1].response.pw_cost = 0 =>
                    /\ last'.result = "err" /\ ~live' /\ UNCHANGED <<disk, crypto>>
                    /\ Len(http') = 1]_vars
C17_Witness ==
    /\ last.op = "sign_in" /\ last.result = "err" /\ ~live
    /\ Len(http) = 1 /\ http[1].response.ok /\ http[1].response.pw_cost = 0
    /\ call.input.cost # 0 /\ InvalidCost(call.output)

\* C18: decrypt of a five-field string checks the scheme tag, then the uuid,
\* then the authenticator, each failure a returned error, and decrypts only
\* when all three passed.
C18_DecryptCheckOrder ==
    (call.fn = "decrypt" /\ call.input.n = 5) =>
        IF call.input.version # "003"
        THEN call.output.tag = "err"
             /\ call.output.val = "No support for encryption scheme < 003"
        ELSE IF call.input.uuid # call.uuid
        THEN call.output.tag = "err" /\ call.output.val = "UUIDs do not match"
        ELSE IF call.input.key # call.key
        THEN call.output.tag = "err"
        ELSE call.output.tag = "ok" /\ call.output.val = call.input.plain

\* C19: for every Note and Tag p and every key schedule k, decrypting the
\* envelope p was encrypted to gives p back.
C19_RoundTrip ==
    call.fn = "round_trip" => (call.output.tag = "ok" /\ call.output.val = call.input)

\* C21: set_current_uuid(uuid) returns Ok and sets current to uuid exactly
\* when uuid is a key of items; otherwise it returns an error and changes
\* neither current nor anything else of the store.
C21_SetCurrentChecksMembership ==
    [][last'.op = "set_current_uuid" =>
        /\ last'.result = "ok" <=> Arg' \in DOMAIN items
        /\ last'.result = "ok" => current' = Some(Arg')
        /\ last'.result # "ok" => current' = current
        /\ UNCHANGED <<items, dirty, disk, sync_token, crypto>>]_vars
C21_Witness ==
    /\ last.op = "set_current_uuid" /\ last.result = "err"
    /\ IsSome(current) /\ Unwrap(current) # Arg /\ Arg \notin DOMAIN items

\* C22: create_note returns a uuid that was no key of items and inserts
\* under it a Note with empty title and text and created_at = updated_at;
\* the dirty set, current, the other items and the disk stay as they were.
C22_CreateNoteFrame ==
    [][last'.op = "create_note" =>
        /\ last'.result = "ok"
        /\ Arg' \notin DOMAIN items
        /\ DOMAIN items' = DOMAIN items \cup {Arg'}
        /\ items'[Arg'].kind = "Note" /\ items'[Arg'].uuid = Arg'
        /\ items'[Arg'].title = "" /\ items'[Arg'].text = ""
        /\ items'[Arg'].created_at = items'[Arg'].updated_at
        /\ \A uuid \in DOMAIN items : items'[uuid] = items[uuid]
        /\ UNCHANGED <<dirty, current, disk>>]_vars
C22_Witness ==
    /\ last.op = "create_note" /\ dirty # {} /\ IsSome(current)
    /\ Arg \notin dirty /\ DOMAIN disk = {} /\ Cardinality(DOMAIN items) = 2

\* C23: in the event loop at most one flush is pending, as an armed timer,
\* as a FlushDirty event not yet handled or as the FlushDirty handler that
\* runs; Update arms a timer only when none is pending; flush_dirty is
\* called only on entry of the FlushDirty handler, and the handler ends only
\* after that call.
Pending ==
    timers + Cardinality({i \in DOMAIN events : events[i] = "FlushDirty"})
           + (IF handler = "FlushDirty" THEN 1 ELSE 0)
C23_OneFlushPending ==
    /\ [](Pending <= 1)
    /\ [][/\ timers' > timers =>
                Pending = 0 /\ handler \in {"UpdateTitle", "UpdateText"}
          /\ (last'.op = "flush_dirty" /\ last' # last) =>
                handler = "FlushDirty" /\ last.op = "FlushDirty"
          /\ (handler = "FlushDirty" /\ handler' = "idle") =>
                last.op = "flush_dirty"
          /\ (flush_timer_running /\ ~flush_timer_running') =>
                handler = "FlushDirty" /\ last.op = "flush_dirty" /\ last.result = "ok"]_vars
C23_Witness ==
    /\ handler = "FlushDirty" /\ last.op = "flush_dirty" /\ last.result = "ok"
    /\ flush_timer_running /\ events # <<>> /\ timers = 0 /\ dirty = {}

\* C24: between two flushes the last writer wins: whatever the number of
\* set_title and set_text on a uuid, flush_dirty writes one file per dirty
\* uuid and pushes one envelope per dirty uuid, each the encryption of the
\* title and text the store holds when flush_dirty is called.
C24_LastWriterWins ==
    [][last'.op = "flush_dirty" =>
        /\ \A uuid \in DOMAIN disk' :
            SameFile(uuid) \/ (uuid \in dirty /\ Stored(disk', uuid) = Ok(items[uuid]))
        /\ last'.result = "ok" =>
            \A uuid \in dirty : uuid \in DOMAIN disk' /\ Stored(disk', uuid) = Ok(items[uuid])
        /\ \A i \in DOMAIN net' :
            /\ Len(net'[i].items) = Cardinality(dirty)
            /\ {e.uuid : e \in Range(net'[i].items)} = dirty
            /\ \A e \in Range(net'[i].items) :
                Envelope_decrypt(crypto, e) = Ok(items[e.uuid])]_vars
C24_Witness ==
    /\ last.op = "flush_dirty" /\ last.result = "ok"
    /\ Len(net) = 1 /\ Len(net[1].items) = 1
    /\ Envelope_decrypt(crypto, net[1].items[1]).tag = "ok"
    /\ Envelope_decrypt(crypto, net[1].items[1]).val.created_at = 0
    /\ Envelope_decrypt(crypto, net[1].items[1]).val.title = ""
    /\ Envelope_decrypt(crypto, net[1].items[1]).val.text = "a"
    /\ disk[net[1].items[1].uuid] = net[1].items[1]

\* C25: for a uuid that stays in items created_at never changes and
\* updated_at never decreases, neither by set_title and set_text nor by the
\* reconciliation that follows the load of the bucket when a store is built.
C25_TimestampsMonotonic ==
    [][/\ \A uuid \in DOMAIN items \cap DOMAIN items' :
            /\ items'[uuid].created_at = items[uuid].created_at
            /\ items'[uuid].updated_at >= items[uuid].updated_at
       /\ (last'.op \in {"open", "import"} /\ last'.result = "ok") =>
            \A uuid \in DOMAIN disk \cap DOMAIN items' :
                /\ items'[uuid].created_at = Loaded(disk)[uuid].created_at
                /\ items'[uuid].updated_at >= Loaded(disk)[uuid].updated_at]_vars

\* C26: when a file of the bucket has a name other than the uuid of its
\* envelope, open fails with the error "File is corrupted" in whatever order
\* the directory is read, installs no store and sends no sync request.
Mismatched(d) == \E name \in DOMAIN d : d[name].uuid # name
C27_ExportArchive ==
    [][(call'.fn = "export" /\ call' # call) =>
        /\ call'.output.tag = "ok"
        /\ call'.output.val.auth_params =
            [identifier |-> Unwrap(credentials).identifier,
             pw_cost |-> Unwrap(credentials).cost,
             pw_nonce |-> Unwrap(credentials).nonce, version |-> "003"]
        /\ Len(call'.output.val.items) = Cardinality(DOMAIN items)
        /\ {e.uuid : e \in Range(call'.output.val.items)} = DOMAIN items
        /\ \A e \in Range(call'.output.val.items) :
            \E item_key \in ItemKeys : e = Item_encrypt(crypto, items[e.uuid], item_key)
        /\ UNCHANGED <<items, dirty, current, crypto, client, sync_token, disk, net, live,
                       credentials, auth_token>>]_vars
C27_Witness ==
    /\ call.fn = "export" /\ live
    /\ Len(call.output.val.items) = 2
    /\ dirty # {}
    /\ Unwrap(credentials) # Account

\* C28: a note edited by set_title or set_text since it was last written to
\* disk is in dirty, also after a flush_dirty or a delete that returned an
\* error.
Edited(uuid) ==
    IF uuid \in DOMAIN disk
    THEN Stored(disk, uuid).tag = "ok" /\
         (Stored(disk, uuid).val.title # items[uuid].title \/
          Stored(disk, uuid).val.text # items[uuid].text)
    ELSE items[uuid].title # "" \/ items[uuid].text # ""
C28_DirtyComplete ==
    live => \A uuid \in DOMAIN items :
                (items[uuid].kind = "Note" /\ Edited(uuid)) => uuid \in dirty

\* C29: decrypt returns an error value for every ciphertext string that
\* does not split into exactly five fields.
C29_FiveFieldsOnly ==
    (call.fn = "decrypt" /\ call.input.n # 5) => call.output.tag = "err"

\* C30: a successful open without a client leaves the decryption of every
\* file of the bucket in items under the file's name, dirty empty and current
\* unset; with a client the first sync request of open carries the envelopes
\* of the files, each once and as read.
C30_OpenLoadsBucket ==
    [][last'.op = "open" =>
        /\ (last'.result = "ok" /\ ~client') =>
            /\ items' = Loaded(disk)
            /\ dirty' = {} /\ current' = None /\ disk' = disk
        /\ net' # <<>> =>
            /\ Len(net'[1].items) = Cardinality(DOMAIN disk)
            /\ Range(net'[1].items) = {disk[uuid] : uuid \in DOMAIN disk}]_vars
C30_Witness ==
    /\ last.op = "open" /\ last.result = "ok" /\ client
    /\ Len(net[1].items) = 2 /\ net[1].items[1] # net[1].items[2]

\* C31: a title or text applied by an Update is eventually in the note's
\* file, unless a later Update set the field of that note to another value
\* or the process ended, in every run where no flush_dirty fails; also when
\* the store was replaced in between.
Applied(op, uuid, s) ==
    /\ last.op = op /\ last.result = "ok"
    /\ last.uuid = Some(uuid) /\ last.str = Some(s)
Overwritten(op, uuid, s) ==
    /\ last.op = op /\ last.result = "ok"
    /\ last.uuid = Some(uuid) /\ last.str # Some(s)
Persisted(field, uuid, s) ==
    /\ uuid \in DOMAIN disk
    /\ Stored(disk, uuid).tag = "ok"
    /\ Stored(disk, uuid).val[field] = s
FlushFailed == last.op = "flush_dirty" /\ last.result # "ok"
C31_EditsEventuallyPersisted ==
    \/ <>FlushFailed
    \/ \A uuid \in UUIDs, s \in Str :
        /\ Applied("set_title", uuid, s) ~>
            (Persisted("title", uuid, s) \/ Overwritten("set_title", uuid, s) \/ ~live)
        /\ Applied("set_text", uuid, s) ~>
            (Persisted("text", uuid, s) \/ Overwritten("set_text", uuid, s) \/ ~live)

\* C32: in every state of a store current is unset or a key of items.
C32_CurrentInItems ==
    live => (current = None \/ Unwrap(current) \in DOMAIN items)

\* C33: every item is stored under its own uuid, every file of the bucket is
\* named by the uuid of the envelope in it, and no scan of the bucket ends
\* with the error "File is corrupted".
C33_KeyConsistency ==
    /\ \A uuid \in DOMAIN items : items[uuid].uuid = uuid
    /\ \A name \in DOMAIN disk : disk[name].uuid = name
    /\ \A order \in Orders(DOMAIN disk) :
        load(Fresh, crypto, disk, order, 1).error # "File is corrupted"
C33_Witness ==
    /\ last.op = "open" /\ last.result = "ok"
    /\ DOMAIN disk = UUIDs /\ DOMAIN items = UUIDs
    /\ \E uuid \in UUIDs : disk[uuid].updated_at = MaxTime /\ disk[uuid].created_at = 0
    /\ \E uuid \in UUIDs : items[uuid].kind = "Tag"

\* C34: an open with a client makes one sync round trip, whatever the server
\* returned, and its request carries nothing but the files of the bucket:
\* no pulled envelope is pushed back.
C34_OneRoundTrip ==
    [][last'.op = "open" =>
        /\ Len(net') <= 1
        /\ \A i \in DOMAIN net' :
            Range(net'[i].items) \subseteq {disk[uuid] : uuid \in DOMAIN disk}]_vars

\* C35: set_title changes the title and updated_at of the current note and
\* set_text its text and updated_at; the other field, uuid and created_at
\* of the note, every other item, current, the disk and the sync cursor stay.
C35_SetterFrame ==
    [][(last'.op \in {"set_title", "set_text"} /\ last'.result = "ok") =>
        LET uuid == Unwrap(current)
            field == IF last'.op = "set_title" THEN "title" ELSE "text"
        IN /\ DOMAIN items' = DOMAIN items
           /\ \A other \in DOMAIN items \ {uuid} : items'[other] = items[other]
           /\ items'[uuid] = [items[uuid] EXCEPT ![field] = Unwrap(last'.str),
                                                 !.updated_at = items'[uuid].updated_at]
           /\ UNCHANGED <<current, disk, sync_token>>]_vars
C35_Witness ==
    /\ last.op = "set_title" /\ last.result = "ok"
    /\ Cardinality(DOMAIN items) = 2
    /\ items[Arg].text = "a" /\ items[Arg].title = "a"
    /\ items[Arg].created_at < items[Arg].updated_at
====
